---- MODULE Spec2Model ----
(***************************************************************************)
(* ECSOS: iteration over the "union" (the common identifiers) of ordered   *)
(* component sets.  The model follows union_set.h (src/ecs_flatset.h lines *)
(* 44-502) and the example program (src/unnamed/part_001).                 *)
(*                                                                         *)
(* A base set is a boost flat_set: a sorted array of records without       *)
(* duplicates.  It is modelled as a sequence of records; a cursor of the   *)
(* set is an index 1..Len+1 into it, Len+1 being the set's end().          *)
(* The tuple sets_ of an iterator is a function on 0..sizeof...(Types)-1,  *)
(* as std::get<N> indexes it.                                              *)
(***************************************************************************)
EXTENDS Integers, Sequences, FiniteSets, TLC

\* Bound of the model: the identifiers of the records are 1..MaxId.
MaxId == 3

\* The component types of the program; each has its own base set, and a union
\* is taken over one, two or all three of them.
ComponentTypes == {"Transform", "RigidBody", "Character"}
MaxSets == Cardinality(ComponentTypes)

VARIABLES
    sets,   \* the base sets taking part in the union, 0..n-1 -> sorted sequence
    its,    \* the two iterator variables of the program ("a", "b"), or NoIt
    hist,   \* per iterator variable: how it was made and what it has visited
    view,   \* the union_set_el obtained from the last dereference (or <<>>)
    sub,    \* the union_set_el converted from view, with its type list, or NoSub
    fault   \* the operation in which the program died on a null read, or "none"

vars == <<sets, its, hist, view, sub, fault>>

Ids == 1..MaxId
\* The values a read of the identifier through a cursor that is at end() may
\* yield.  Such a read is undefined; the storage of a flat_set is an array, so
\* the read finds whatever lies behind the last record, or, for a set that
\* has no storage (an empty one), goes through a null pointer and can end
\* the program.
Junk == 0..(MaxId + 1)
Slots == {"a", "b"}
NoIt == [none |-> TRUE]
NoSub == [made |-> FALSE, types |-> <<>>, el |-> <<>>]

-----------------------------------------------------------------------------
(* Records and identifiers *)

\* ComponentBase(int id): a component record with identifier id
ComponentBase(id) == [Id |-> id]

\* ComponentBase::id()
id(x) == x.Id

\* The member Id of a record of a type whose element_id is specialised to
\* read another member lies this far from the record's identifier.
MemberOffsets == {-1, 0, 1}

\* a record of a type with a specialised element_id: the identifier is kept
\* in the member the specialisation reads, the member Id holds another number
KeyedRecord(key, off) == [Id |-> key + off, Key |-> key]

\* element_id<T>::operator(): the default projection calls x.id(); a
\* specialisation for the record's type reads the member it was written for
element_id(x) == IF "Key" \in DOMAIN x THEN x.Key ELSE id(x)

\* get_element_id(x)
get_element_id(x) == element_id(x)

\* ComponentBase::operator<
Less(x, y) == x.Id < y.Id

\* a component record with identifier n and the data members of its type (X, Y, Z of
\* a Transform, Mass of a RigidBody, Archetype of a Character), here one
\* number, 0 as constructed
DataRecord(n) == [Id |-> n, Data |-> 0]

-----------------------------------------------------------------------------
(* The ordered base sets (boost::container::flat_set as the code uses it) *)

RECURSIVE SortedSeq(_)
\* the contents of a flat_set after emplacing the identifiers of ids
SortedSeq(ids) ==
    IF ids = {} THEN <<>>
    ELSE LET m == CHOOSE x \in ids : \A y \in ids : y <= x
         IN Append(SortedSeq(ids \ {m}), ComponentBase(m))

\* the same set holding records of a type with a specialised element_id
KeyedSeq(s, off) == [p \in 1..Len(s) |-> KeyedRecord(s[p].Id, off)]

FlatSetBegin(s) == 1
FlatSetEnd(s) == Len(s) + 1

\* flat_set::find(key): lower bound by operator<, then an equivalence test
FlatSetFind(s, key) ==
    LET lb == Cardinality({p \in 1..Len(s) : Less(s[p], key)}) + 1
    IN IF lb <= Len(s) /\ ~Less(key, s[lb]) THEN lb ELSE FlatSetEnd(s)

-----------------------------------------------------------------------------
(* union_set_iterator_pair *)

make_union_set_iterator_pair(currentIt, endIt) ==
    [current |-> currentIt, end |-> endIt]

\* operator== of the pair as it would be if it compared the wrong member
PairEqByEnd(p, q) == p.end = q.end

\* union_set_iterator_pair::operator==
PairEq(p, q) == p.current = q.current

\* union_set_iterator_pair::operator!=
PairNeq(p, q) == ~PairEq(p, q)

-----------------------------------------------------------------------------
(* union_set_iterator *)

\* sizeof...(Types)
NumTypes(it) == Cardinality(DOMAIN it.sets_)

max_index(it) == NumTypes(it) - 1

has_single_set(it) == NumTypes(it) = 1

\* the cursor of set N stands at the set's end()
AtEndCursor(it, N) == it.sets_[N].current = it.sets_[N].end

\* *current for the cursor of set N.  Reading through a cursor that is not
\* inside the set is undefined: it yields a record with any identifier.
Star(S, it, N, junk) ==
    IF it.sets_[N].current \in 1..Len(S[N])
    THEN S[N][it.sets_[N].current]
    ELSE ComponentBase(junk)

\* what the read of *current for set N was: inside the set, past the last
\* record of a non-empty set, or through the cursor of a set without storage
Touch(S, it, N) ==
    IF it.sets_[N].current \in 1..Len(S[N]) THEN it
    ELSE IF Len(S[N]) = 0 THEN [it EXCEPT !.read_end = "null"]
    ELSE IF it.read_end = "null" THEN it
    ELSE [it EXCEPT !.read_end = "past"]

\* The iterator record also keeps an account of the synchronisation that is
\* running (a construction or an advance): top is the largest identifier read
\* so far through the cursors, maxes the assignments to max_ so far, each with
\* the value stored and the value of top at that moment.
Observe(it, v) == [it EXCEPT !.top = IF v > @ THEN v ELSE @]

\* max_ = v, v having just been read through a cursor
SetMax(it, v) ==
    LET o == Observe(it, v)
    IN [o EXCEPT !.max_ = v, !.maxes = Append(@, [max |-> v, top |-> o.top])]

\* ++(std::get<N>(sets_).current): the cursor of set N moves by one record;
\* steps counts these moves for each set since the construction
Step(it, N) == [it EXCEPT !.sets_[N].current = @ + 1, !.steps[N] = @ + 1]

\* the account of a new synchronisation
Resume(it) == [it EXCEPT !.top = 0, !.maxes = <<>>]

RECURSIVE advance_to_end(_, _)
\* advance_to_end<N>: sets the cursors of the sets N, N-1, .., 0 to their end
advance_to_end(it, N) ==
    LET one == [it EXCEPT !.sets_[N].current = it.sets_[N].end]
    IN IF N = 0 THEN one ELSE advance_to_end(one, N - 1)

\* advance_all_to_end as it would be if it moved the last cursor only
advance_driver_to_end(it) ==
    [it EXCEPT !.sets_[max_index(it)].current = it.sets_[max_index(it)].end]

advance_all_to_end(it) == advance_to_end(it, max_index(it))

RECURSIVE at_end(_, _)
\* at_end<N>: some cursor among the sets N, N-1, .., 0 is at its end
at_end(it, N) ==
    IF N = 0 THEN AtEndCursor(it, 0)
    ELSE AtEndCursor(it, N) \/ at_end(it, N - 1)

any_at_end(it) == at_end(it, max_index(it))

RECURSIVE advance_while_leq(_, _, _, _)
\* the while loop of advance_until as it would be if it compared with <=:
\* it also moves a cursor that stands on max_
advance_while_leq(S, it, N, junk) ==
    LET v == get_element_id(Star(S, it, N, junk))
        read == Observe(Touch(S, it, N), v)
    IN IF v <= it.max_
       THEN LET inc == Step(read, N)
            IN IF AtEndCursor(inc, N)
               THEN [it |-> advance_all_to_end(inc), done |-> TRUE]
               ELSE advance_while_leq(S, inc, N, junk)
       ELSE [it |-> read, done |-> FALSE]

RECURSIVE scan_while(_, _, _, _)
\* a linear search for the first record of set N not below max_
scan_while(S, it, N, junk) ==
    LET v == get_element_id(Star(S, it, N, junk))
        read == Observe(Touch(S, it, N), v)
    IN IF v < it.max_
       THEN LET inc == Step(read, N)
            IN IF AtEndCursor(inc, N)
               THEN [it |-> advance_all_to_end(inc), done |-> TRUE]
               ELSE scan_while(S, inc, N, junk)
       ELSE [it |-> read, done |-> FALSE]

\* the while loop of advance_until as it would be if it searched set N from
\* its first record instead of continuing from the cursor
advance_while_rewind(S, it, N, junk) ==
    scan_while(S, [it EXCEPT !.sets_[N].current = FlatSetBegin(S[N])], N, junk)

RECURSIVE advance_while(_, _, _, _)
\* the while loop of advance_until<N>(false_type): moves the cursor of set N
\* forward while its identifier is below max_; done tells that the set was
\* exhausted (all cursors were then moved to their end)
advance_while(S, it, N, junk) ==
    LET v == get_element_id(Star(S, it, N, junk))
        read == Observe(Touch(S, it, N), v)
    IN IF v < it.max_
       THEN LET inc == Step(read, N)
            IN IF AtEndCursor(inc, N)
               THEN [it |-> advance_all_to_end(inc), done |-> TRUE]
               ELSE advance_while(S, inc, N, junk)
       ELSE [it |-> read, done |-> FALSE]

RECURSIVE advance_until_no_restart(_, _, _, _)
\* advance_until<N>(std::false_type) as it would be without the test that
\* finds set N ahead of max_: it goes on to the next set instead of raising
\* max_ and asking for another pass
advance_until_no_restart(S, it, N, junk) ==
    LET w == advance_while(S, it, N, junk)
    IN IF w.done THEN [it |-> w.it, ret |-> TRUE]
       ELSE IF N = 0
       THEN [it |-> w.it, ret |-> TRUE]
       ELSE advance_until_no_restart(S, w.it, N - 1, junk)

RECURSIVE advance_until_false(_, _, _, _)
\* advance_until<N>(std::false_type)
advance_until_false(S, it, N, junk) ==
    LET w == advance_while(S, it, N, junk)
    IN IF w.done THEN [it |-> w.it, ret |-> TRUE]
       ELSE IF w.it.max_ < get_element_id(Star(S, w.it, N, junk))
       THEN [it |-> SetMax(w.it, get_element_id(Star(S, w.it, N, junk))),
             ret |-> FALSE]
       ELSE IF N = 0
       THEN [it |-> w.it, ret |-> TRUE]     \* advance_until<N-1>(true_type)
       ELSE advance_until_false(S, w.it, N - 1, junk)

\* advance_until<N>(tag): the tag selects the overload
advance_until(S, it, N, single, junk) ==
    IF single THEN [it |-> it, ret |-> TRUE]
    ELSE advance_until_false(S, it, N, junk)

\* the loop of operator++ as it would be with a single pass over the sets
sync_single_pass(S, it, junk) ==
    advance_until(S, it, max_index(it), has_single_set(it), junk).it

RECURSIVE sync_loop_skip_driver(_, _, _)
\* the loop of operator++ as it would be if it called advance_until with
\* max_index() - 1, as start() does: the driver is left out of the passes
sync_loop_skip_driver(S, it, junk) ==
    LET r == advance_until(S, it, max_index(it) - 1, has_single_set(it), junk)
    IN IF r.ret THEN r.it ELSE sync_loop_skip_driver(S, r.it, junk)

RECURSIVE sync_loop(_, _, _)
\* while (!advance_until<max_index()>(has_single_set)) {}
sync_loop(S, it, junk) ==
    LET r == advance_until(S, it, max_index(it), has_single_set(it), junk)
    IN IF r.ret THEN r.it ELSE sync_loop(S, r.it, junk)

\* operator++ as it would be if it sent the other cursors back to the first
\* record of their sets and let them catch up from there
operator_inc_rescan(S, it, junk) ==
    LET d == max_index(it)
        inc == Step(it, d)
        back == [inc EXCEPT !.sets_ = [N \in DOMAIN @ |->
                    IF N = d THEN @[N] ELSE [@[N] EXCEPT !.current = 1]]]
    IN IF d > 0 /\ AtEndCursor(inc, d) THEN advance_all_to_end(inc)
       ELSE IF d > 0
       THEN sync_loop(S, SetMax(Touch(S, back, d),
                                get_element_id(Star(S, back, d, junk))), junk)
       ELSE inc

\* union_set_iterator::operator++
operator_inc(S, it, junk) ==
    LET d == max_index(it)
        inc == Step(it, d)
    IN IF d > 0 /\ AtEndCursor(inc, d) THEN advance_all_to_end(inc)
       ELSE IF d > 0
       THEN sync_loop(S, SetMax(Touch(S, inc, d),
                                get_element_id(Star(S, inc, d, junk))), junk)
       ELSE inc

\* start() as it would be if, for several sets, it called operator++ also
\* when advance_until found the cursors aligned, leaving the first common
\* identifier behind
start_always_inc(S, it, junk) ==
    IF max_index(it) # 0 /\ any_at_end(it) THEN advance_all_to_end(it)
    ELSE LET d == max_index(it)
             m == SetMax(Touch(S, it, d), Star(S, it, d, junk).Id)
             r == advance_until(S, m, d - 1, has_single_set(m), junk)
         IN IF has_single_set(m) \/ any_at_end(r.it) THEN r.it
            ELSE operator_inc(S, r.it, junk)

\* start() as it would be without the call of operator++ for the case that
\* advance_until found a set ahead of the driver
start_no_inc(S, it, junk) ==
    IF max_index(it) # 0 /\ any_at_end(it) THEN advance_all_to_end(it)
    ELSE LET d == max_index(it)
             m == SetMax(Touch(S, it, d), Star(S, it, d, junk).Id)
             r == advance_until(S, m, d - 1, has_single_set(m), junk)
         IN r.it

\* union_set_iterator::start
start(S, it, junk) ==
    IF max_index(it) # 0 /\ any_at_end(it) THEN advance_all_to_end(it)
    ELSE LET d == max_index(it)
             m == SetMax(Touch(S, it, d), Star(S, it, d, junk).Id)
             r == advance_until(S, m, d - 1, has_single_set(m), junk)
         IN IF ~r.ret THEN operator_inc(S, r.it, junk) ELSE r.it

\* union_set_iterator(union_set_iterator_pair<Types>... args): max_{ 0 },
\* sets_{ make_tuple(args...) }, then start()
union_set_iterator(S, pairs, junk) ==
    start(S, [sets_ |-> pairs, max_ |-> 0, read_end |-> "no",
              top |-> 0, maxes |-> <<>>, steps |-> [N \in DOMAIN pairs |-> 0]],
          junk)

make_union_set_iterator(S, pairs, junk) == union_set_iterator(S, pairs, junk)

RECURSIVE TupleEq(_, _, _)
\* std::tuple operator==: element by element from index 0, stopping at the
\* first pair that differs
TupleEq(t, u, N) ==
    IF N \notin DOMAIN t THEN TRUE
    ELSE PairEq(t[N], u[N]) /\ TupleEq(t, u, N + 1)

\* union_set_iterator::operator==
IterEq(x, y) == TupleEq(x.sets_, y.sets_, 0)

\* union_set_iterator::operator!=
IterNeq(x, y) == ~IterEq(x, y)

-----------------------------------------------------------------------------
(* union_set *)

\* union_set::begin
union_begin(S, junk) ==
    make_union_set_iterator(S,
        [i \in DOMAIN S |->
            make_union_set_iterator_pair(FlatSetBegin(S[i]), FlatSetEnd(S[i]))],
        junk)

\* union_set::end
union_end(S, junk) ==
    make_union_set_iterator(S,
        [i \in DOMAIN S |->
            make_union_set_iterator_pair(FlatSetEnd(S[i]), FlatSetEnd(S[i]))],
        junk)

\* union_set::find(element_id_type key) as it would be if it called
\* upper_bound on the base sets: the cursors are put behind the records
\* that compare not greater than the key
union_find_upper(S, key, junk) ==
    make_union_set_iterator(S,
        [i \in DOMAIN S |->
            make_union_set_iterator_pair(
                Cardinality({p \in 1..Len(S[i]) : ~Less(ComponentBase(key), S[i][p])}) + 1,
                FlatSetEnd(S[i]))],
        junk)

\* union_set::find(element_id_type key): { key } builds the record looked up
union_find(S, key, junk) ==
    make_union_set_iterator(S,
        [i \in DOMAIN S |->
            make_union_set_iterator_pair(FlatSetFind(S[i], ComponentBase(key)),
                                         FlatSetEnd(S[i]))],
        junk)

\* union_set::find(value_type<TSet>&&... key): one key record per base set
union_find_keys(S, keys, junk) ==
    make_union_set_iterator(S,
        [i \in DOMAIN S |->
            make_union_set_iterator_pair(FlatSetFind(S[i], keys[i]),
                                         FlatSetEnd(S[i]))],
        junk)

-----------------------------------------------------------------------------
(* union_set_el: the tuple of pointers a dereference yields.  A pointer is  *)
(* [type, pos]: type N is "pointer to the record type of set N" and pos the *)
(* index of the record it points to in that set's storage.                  *)

\* &*current for the cursor of set N
PointerTo(it, N) == [type |-> N, pos |-> it.sets_[N].current]

\* operator* as it would be if the pointers were put into the tuple last
\* set first
operator_star_reversed(it) ==
    [k \in 1..NumTypes(it) |-> PointerTo(it, NumTypes(it) - k)]

\* union_set_iterator::operator*
operator_star(it) == [k \in 1..NumTypes(it) |-> PointerTo(it, k - 1)]

\* the type list Types... of a union_set_el
TypesOf(x) == [k \in 1..Len(x) |-> x[k].type]

\* tuple_has_type as it would be without the specialisation that goes on to
\* the rest of the tuple when the first type is another one
tuple_has_type_first(T, Tuple) == Tuple # <<>> /\ Head(Tuple) = T

RECURSIVE tuple_has_type(_, _)
\* meta::tuple_has_type<T, std::tuple<...>>
tuple_has_type(T, Tuple) ==
    IF Tuple = <<>> THEN FALSE
    ELSE IF Head(Tuple) = T THEN TRUE
    ELSE tuple_has_type(T, Tail(Tuple))

RECURSIVE is_subset(_, _)
\* meta::is_subset<TTuple, CTypes...>
is_subset(TTuple, CTypes) ==
    IF CTypes = <<>> THEN TRUE
    ELSE IF tuple_has_type(Head(CTypes), TTuple) THEN is_subset(TTuple, Tail(CTypes))
    ELSE FALSE

\* std::get<T>(x): the element of type T of the tuple x
std_get(T, x) == x[CHOOSE k \in 1..Len(x) : x[k].type = T]

\* the converting constructor as it would be if it took the pointers of the
\* source by position (std::get<k>) instead of by type (std::get<Types>)
union_set_el_by_position(Types, x) ==
    [k \in 1..Len(Types) |-> [type |-> Types[k], pos |-> x[k].pos]]

\* union_set_el<Types...>::union_set_el(const union_set_el<CTypes...>& x)
union_set_el_from(Types, x) ==
    [k \in 1..Len(Types) |->
        [type |-> Types[k], pos |-> std_get(Types[k], x).pos]]

\* get<T>(x): the record the pointer of type T refers to
get(S, T, x) == S[T][std_get(T, x).pos]

\* get<T>(x).Data = v as it would be if get took the first pointer of the
\* tuple whatever T is
put_first(S, T, x, v) == [S EXCEPT ![x[1].type][x[1].pos].Data = v]

\* get<T>(x).Data = v: an assignment through the reference get returns; the
\* base sets after it
put(S, T, x, v) == [S EXCEPT ![T][std_get(T, x).pos].Data = v]

-----------------------------------------------------------------------------
(* The program: iterator variables over one union of base sets *)

SortedSeqs == {SortedSeq(ids) : ids \in SUBSET Ids}

\* the type lists a union_set_el may be converted to
RECURSIVE TypeLists(_, _)
TypeLists(types, n) ==
    IF n = 0 THEN {<<>>}
    ELSE LET shorter == TypeLists(types, n - 1)
         IN shorter \cup {Append(l, t) : l \in shorter, t \in types}

Injective(l) == \A j, k \in 1..Len(l) : j # k => l[j] # l[k]

Targets == {l \in TypeLists(0..(MaxSets - 1), MaxSets) : Injective(l)}

\* the values a read at end() can take in a construction whose run with the
\* value 0 is probe, and whether that construction can end the program
JunkOf(probe) == IF probe.read_end = "no" THEN {0} ELSE Junk
DieOf(probe) == IF probe.read_end = "null" THEN BOOLEAN ELSE {FALSE}

NoHist == [origin |-> "none", key |-> 0, out |-> <<>>, advs |-> 0]

\* it != end(): what the caller tests before it dereferences or advances
NotAtEnd(it) == IterNeq(it, union_end(sets, 0))

\* the identifier a loop body sees: that of the first record of *it
Seen(it) == get_element_id(get(sets, 0, operator_star(it)))

Visit(it) == IF NotAtEnd(it) THEN <<Seen(it)>> ELSE <<>>

Init ==
    /\ \E n \in 1..MaxSets : sets \in [0..(n - 1) -> SortedSeqs]
    /\ its = [s \in Slots |-> NoIt]
    /\ hist = [s \in Slots |-> NoHist]
    /\ view = <<>>
    /\ sub = NoSub
    /\ fault = "none"

\* The component sets of a program in which one component type has a
\* specialised element_id
InitProj ==
    /\ \E n \in 1..MaxSets :
          \E plain \in [0..(n - 1) -> SortedSeqs], k \in 0..(n - 1),
             off \in MemberOffsets :
             sets = [plain EXCEPT ![k] = KeyedSeq(plain[k], off)]
    /\ its = [s \in Slots |-> NoIt]
    /\ hist = [s \in Slots |-> NoHist]
    /\ view = <<>>
    /\ sub = NoSub
    /\ fault = "none"

\* the iterator it was constructed by operation op and assigned to s; a read
\* through a null cursor may instead end the program
Constructed(s, op, key, it, die) ==
    IF it.read_end = "null" /\ die
    THEN /\ fault' = op
         /\ UNCHANGED <<sets, its, hist, view, sub>>
    ELSE /\ its' = [its EXCEPT ![s] = it]
         /\ hist' = [hist EXCEPT ![s] =
                        [origin |-> op, key |-> key, out |-> Visit(it), advs |-> 0]]
         /\ view' = <<>>
         /\ sub' = NoSub
         /\ UNCHANGED <<sets, fault>>

\* s = union.begin()
Begin(s) ==
    /\ fault = "none"
    /\ LET probe == union_begin(sets, 0)
       IN \E junk \in JunkOf(probe), die \in DieOf(probe) :
             Constructed(s, "begin", 0, union_begin(sets, junk), die)

\* s = union.end()
End(s) ==
    /\ fault = "none"
    /\ LET probe == union_end(sets, 0)
       IN \E junk \in JunkOf(probe), die \in DieOf(probe) :
             Constructed(s, "end", 0, union_end(sets, junk), die)

\* s = union.find(key)
Find(s, key) ==
    /\ fault = "none"
    /\ LET probe == union_find(sets, key, 0)
       IN \E junk \in JunkOf(probe), die \in DieOf(probe) :
             Constructed(s, "find", key, union_find(sets, key, junk), die)

\* s = union.find(Transform{k0}, RigidBody{k1}, ..): a key record for each
\* base set, each the like of a record its set holds; the history keeps the
\* identifiers looked up
FindKeys(s, ks) ==
    /\ fault = "none"
    /\ \A i \in DOMAIN sets :
          FlatSetFind(sets[i], ComponentBase(ks[i])) # FlatSetEnd(sets[i])
    /\ LET keys == [i \in DOMAIN sets |-> ComponentBase(ks[i])]
           probe == union_find_keys(sets, keys, 0)
       IN \E junk \in JunkOf(probe), die \in DieOf(probe) :
             Constructed(s, "find_keys", ks, union_find_keys(sets, keys, junk), die)

\* ++s as it would be if the iterator variables shared their cursors and
\* max_ instead of holding copies of them
AdvanceShared(s) ==
    /\ fault = "none"
    /\ its[s] # NoIt
    /\ NotAtEnd(its[s])
    /\ \E junk \in JunkOf(operator_inc(sets, its[s], 0)) :
          LET it == operator_inc(sets, Resume(its[s]), junk)
          IN /\ its' = [t \in Slots |-> IF its[t] = NoIt THEN NoIt ELSE it]
             /\ hist' = [hist EXCEPT ![s].out = @ \o Visit(it),
                                     ![s].advs = @ + 1]
    /\ view' = <<>>
    /\ sub' = NoSub
    /\ UNCHANGED <<sets, fault>>

\* ++s, called as the loops of the program do: only while s != end()
Advance(s) ==
    /\ fault = "none"
    /\ its[s] # NoIt
    /\ NotAtEnd(its[s])
    /\ \E junk \in JunkOf(operator_inc(sets, its[s], 0)) :
          LET it == operator_inc(sets, Resume(its[s]), junk)
          IN /\ its' = [its EXCEPT ![s] = it]
             /\ hist' = [hist EXCEPT ![s].out = @ \o Visit(it),
                                     ![s].advs = @ + 1]
    /\ view' = <<>>
    /\ sub' = NoSub
    /\ UNCHANGED <<sets, fault>>

\* auto entity = *s
Deref(s) ==
    /\ fault = "none"
    /\ its[s] # NoIt
    /\ NotAtEnd(its[s])
    /\ view' = operator_star(its[s])
    /\ sub' = NoSub
    /\ UNCHANGED <<sets, its, hist, fault>>

\* passing the entity to a function that takes a union_set_el<Types...>
Convert(Types) ==
    /\ fault = "none"
    /\ view # <<>>
    /\ is_subset(TypesOf(view), Types)
    /\ sub' = [made |-> TRUE, types |-> Types, el |-> union_set_el_from(Types, view)]
    /\ UNCHANGED <<sets, its, hist, view, fault>>

\* One iterator variable, as in the loops and the asserts of main
Next ==
    \/ Begin("a")
    \/ End("a")
    \/ \E key \in Ids : Find("a", key)
    \/ Advance("a")

Spec == Init /\ [][Next]_vars

\* Two iterator variables over the same union, each traversed on its own
NextPair ==
    \/ \E s \in Slots : Begin(s)
    \/ \E s \in Slots : End(s)
    \/ \E s \in Slots : Advance(s)

SpecPair == Init /\ [][NextPair]_vars

\* The loop over a union whose body takes the entity and hands it on to
\* functions that take an entity of fewer components
NextView ==
    \/ Begin("a")
    \/ Advance("a")
    \/ Deref("a")
    \/ \E Types \in Targets : Convert(Types)

SpecView == Init /\ [][NextView]_vars

\* Two iterator variables in use at the same time, each initialised once:
\* both may be traversed from begin(), one of them may instead come from a
\* lookup, the other is dereferenced
NextIndep ==
    \/ \E s \in Slots : its[s] = NoIt /\ Begin(s)
    \/ \E s \in Slots : Advance(s)
    \/ its["b"] = NoIt /\ \E key \in Ids : Find("b", key)
    \/ Deref("a")

SpecIndep == Init /\ [][NextIndep]_vars

\* An iterator variable initialised by a lookup, by identifier or by one key
\* record per base set, and advanced from there
NextKeys ==
    \/ its["a"] = NoIt /\ \E key \in Ids : Find("a", key)
    \/ its["a"] = NoIt /\ \E ks \in [DOMAIN sets -> Ids] : FindKeys("a", ks)
    \/ Advance("a")

SpecKeys == Init /\ [][NextKeys]_vars

\* the same base sets listed in another order: set p[i] takes place i
Permute(S, p) == [i \in DOMAIN S |-> S[p[i]]]

\* the orders in which the base sets of D can be listed
Perms(D) == {p \in [D -> D] : \A x, y \in D : p[x] = p[y] => x = y}

RECURSIVE WalkFrom(_, _)
\* for (; it != end(); ++it): the identifiers the loop body sees
WalkFrom(S, it) ==
    IF IterNeq(it, union_end(S, 0))
    THEN <<get_element_id(get(S, 0, operator_star(it)))>>
             \o WalkFrom(S, operator_inc(S, Resume(it), 0))
    ELSE <<>>

\* the loop from begin() over the union of the sets S
Walk(S) == WalkFrom(S, union_begin(S, 0))

\* find(key) != end() for the union of the sets S
Found(S, key) == IterNeq(union_find(S, key, 0), union_end(S, 0))

\* An iterator variable initialised once, by begin() or by a lookup, and
\* advanced from there
NextOrder ==
    \/ its["a"] = NoIt /\ Begin("a")
    \/ its["a"] = NoIt /\ \E key \in Ids : Find("a", key)
    \/ Advance("a")

SpecOrder == Init /\ [][NextOrder]_vars

\* The component sets of a program whose loop bodies write to the components
InitData ==
    /\ \E n \in 1..MaxSets :
          \E plain \in [0..(n - 1) -> SortedSeqs] :
             sets = [N \in DOMAIN plain |->
                        [p \in 1..Len(plain[N]) |-> DataRecord(plain[N][p].Id)]]
    /\ its = [s \in Slots |-> NoIt]
    /\ hist = [s \in Slots |-> NoHist]
    /\ view = <<>>
    /\ sub = NoSub
    /\ fault = "none"

\* get<T>(entity).Data = ..: the loop body stores in the component of type T
\* of the entity a value that tells the type
Write(T) ==
    /\ fault = "none"
    /\ view # <<>>
    /\ sets' = put(sets, T, view, T + 1)
    /\ UNCHANGED <<its, hist, view, sub, fault>>

\* A loop over a union whose body takes the entity and writes to its
\* components
NextWrite ==
    \/ its["a"] = NoIt /\ Begin("a")
    \/ Advance("a")
    \/ Deref("a")
    \/ \E T \in DOMAIN sets : Write(T)

SpecWrite == InitData /\ [][NextWrite]_vars

\* HandleX(entity) for a function that takes a union_set_el<Types...>: the
\* converting constructor takes part in the call only if is_subset holds, and
\* the call is rejected by the compiler otherwise
Call(Types) ==
    /\ fault = "none"
    /\ view # <<>>
    /\ sub' = IF is_subset(TypesOf(view), Types)
              THEN [made |-> TRUE, types |-> Types,
                    el |-> union_set_el_from(Types, view)]
              ELSE [made |-> FALSE, types |-> Types, el |-> <<>>]
    /\ UNCHANGED <<sets, its, hist, view, fault>>

\* inside the function called: its parameter is the entity it works with and
\* hands on
Enter ==
    /\ fault = "none"
    /\ sub.made
    /\ sub.el # <<>>
    /\ view' = sub.el
    /\ sub' = NoSub
    /\ UNCHANGED <<sets, its, hist, fault>>

\* The first entity of a union handed to functions that take entities of
\* other component lists, which hand it on in turn
NextCall ==
    \/ its["a"] = NoIt /\ Begin("a")
    \/ Deref("a")
    \/ \E Types \in Targets : Call(Types)
    \/ Enter

SpecCall == Init /\ [][NextCall]_vars

\* A traversal of a union in which one component type has a specialised
\* element_id
NextProj ==
    \/ Begin("a")
    \/ Advance("a")

SpecProj == InitProj /\ [][NextProj]_vars

-----------------------------------------------------------------------------
(* Vocabulary of the properties *)

\* the identifiers of the records of a base set
IdsOf(s) == {get_element_id(s[p]) : p \in 1..Len(s)}

\* the identifiers present in every base set of the union
Common == {x \in IdsOf(sets[0]) : \A N \in DOMAIN sets : x \in IdsOf(sets[N])}

RECURSIVE Ascending(_)
\* the numbers of a finite set in increasing order
Ascending(xs) ==
    IF xs = {} THEN <<>>
    ELSE LET m == CHOOSE x \in xs : \A y \in xs : y <= x
         IN Append(Ascending(xs \ {m}), m)

IsPrefix(p, q) == Len(p) <= Len(q) /\ p = SubSeq(q, 1, Len(p))

Made(s) == its[s] # NoIt

\* every cursor equals its set's end cursor
AllAtEnd(it) == \A N \in DOMAIN it.sets_ : AtEndCursor(it, N)

\* the cursor of set N points at a record of the set
InSet(it, N) == it.sets_[N].current \in 1..Len(sets[N])

\* the identifier of the record under the cursor of set N
CurId(it, N) == get_element_id(sets[N][it.sets_[N].current])

\* no cursor is at its end and all of them point at records with identifier x
AlignedOn(it, x) == \A N \in DOMAIN it.sets_ : InSet(it, N) /\ CurId(it, N) = x

Aligned(it) == InSet(it, 0) /\ AlignedOn(it, CurId(it, 0))

\* the cursor a construction hands to the iterator for set N
FirstCursor(h, N) ==
    IF h.origin = "begin" THEN FlatSetBegin(sets[N])
    ELSE IF h.origin = "find" THEN FlatSetFind(sets[N], ComponentBase(h.key))
    ELSE IF h.origin = "find_keys"
    THEN FlatSetFind(sets[N], ComponentBase(h.key[N]))
    ELSE FlatSetEnd(sets[N])

-----------------------------------------------------------------------------
(* Properties *)

\* Traversal from begin(): what has been visited so far is an initial part of
\* the common identifiers in increasing order, and all of them once the
\* iterator equals end().
Traversal(s) ==
    hist[s].origin = "begin" =>
        /\ IsPrefix(hist[s].out, Ascending(Common))
        /\ ~NotAtEnd(its[s]) => hist[s].out = Ascending(Common)

\* C1 (completeness): for any number n >= 1 of base sets, begin() and end()
\* yield iterators, and dereferencing and advancing from begin() until the
\* iterator equals end() produces exactly the identifiers present in every
\* set, in increasing order, each once.
C1_Completeness ==
    /\ fault \notin {"begin", "end"}
    /\ \A s \in Slots : Traversal(s)

\* The part of C1 that the code keeps: every traversal whose begin() and
\* end() return produces the common identifiers.
C1_CompleteWhenConstructed == \A s \in Slots : Traversal(s)

\* A traversal of a union of several sets has ended after visiting two
\* identifiers and skipping others.
C1_Witness ==
    /\ Cardinality(DOMAIN sets) >= 2
    /\ hist["a"].origin = "begin"
    /\ ~NotAtEnd(its["a"])
    /\ Len(hist["a"].out) = 2
    /\ \E N \in DOMAIN sets : Len(sets[N]) = 3

\* C2 (alignment invariant): in every positioned (non-end) state reached by
\* begin(), by find(id) or by advances, the records under all cursors have
\* one and the same identifier, and that identifier is present in every
\* base set of the union.
C2_Alignment ==
    \A s \in Slots :
        (Made(s) /\ NotAtEnd(its[s])) =>
            /\ Aligned(its[s])
            /\ CurId(its[s], 0) \in Common

\* An iterator over three sets is positioned, after an advance, on records
\* that lie at different positions of their sets.
C2_Witness ==
    /\ Cardinality(DOMAIN sets) = 3
    /\ hist["a"].advs >= 1
    /\ NotAtEnd(its["a"])
    /\ Aligned(its["a"])
    /\ \E N, M \in DOMAIN sets :
          its["a"].sets_[N].current # its["a"].sets_[M].current

\* find(id): the iterator is not end() exactly when id is in every base set,
\* and then every record a dereference refers to has identifier id.
Lookup(s) ==
    (hist[s].origin = "find" /\ hist[s].advs = 0) =>
        /\ NotAtEnd(its[s]) <=> hist[s].key \in Common
        /\ NotAtEnd(its[s]) =>
              \A N \in DOMAIN sets :
                  get_element_id(get(sets, N, operator_star(its[s]))) = hist[s].key

\* C3 (lookup consistency): find(id) and end() yield iterators; find(id)
\* compares unequal to end() if and only if id belongs to every base set, and
\* when found every record of the dereference has identifier id.
C3_LookupConsistency ==
    /\ fault \notin {"find", "end"}
    /\ \A s \in Slots : Lookup(s)

\* The part of C3 that the code keeps: it holds of every find that returns.
C3_LookupWhenConstructed == \A s \in Slots : Lookup(s)

\* Traversal from begin(): the iterator equals end() after exactly as many
\* advances as there are common identifiers, and not before.
Count(s) ==
    hist[s].origin = "begin" =>
        /\ hist[s].advs <= Cardinality(Common)
        /\ ~NotAtEnd(its[s]) <=> hist[s].advs = Cardinality(Common)

\* C4 (termination and count): starting from begin(), the iterator first
\* equals end() after exactly k advances, k the number of common identifiers
\* (k = 0: begin() == end()); so begin() and end() return and every
\* traversal ends.
C4_TerminationCount ==
    /\ fault \notin {"begin", "end"}
    /\ \A s \in Slots : Count(s)

\* The part of C4 that the code keeps: the count, for every traversal whose
\* begin() and end() return.
C4_CountWhenConstructed == \A s \in Slots : Count(s)

\* C5 (two observable states): after construction and after every advance
\* from a positioned state, either every cursor equals its end cursor, or no
\* cursor is at its end and all point at records of one identifier; never
\* some cursors at end and others not.
C5_TwoStates ==
    \A s \in Slots : Made(s) => AllAtEnd(its[s]) \/ Aligned(its[s])

\* An advance has exhausted the last set of a union of several sets while
\* another set still had a record beyond all records of the last set: that
\* cursor was moved to its end as well.
C5_Witness ==
    LET d == Cardinality(DOMAIN sets) - 1
    IN /\ d >= 1
       /\ hist["a"].advs >= 1
       /\ AllAtEnd(its["a"])
       /\ \E N \in 0..(d - 1) :
             \E x \in IdsOf(sets[N]) : \A y \in IdsOf(sets[d]) : y < x

\* A construction that was handed a cursor already at its end yields the end
\* iterator.
NotFound(s) ==
    (/\ Made(s)
     /\ hist[s].advs = 0
     /\ \E N \in DOMAIN sets : FirstCursor(hist[s], N) = FlatSetEnd(sets[N])) =>
        /\ AllAtEnd(its[s])
        /\ IterEq(its[s], union_end(sets, 0))

\* C6 (not found is a value, not an error): if at construction any cursor
\* already equals its end cursor (an empty set under begin(), a missed lookup
\* under find(id)), the resulting iterator has every cursor at its end,
\* also those whose own lookup succeeded, and equals end(); no error arises.
C6_NotFoundIsEnd ==
    /\ fault = "none"
    /\ \A s \in Slots : NotFound(s)

\* The part of C6 that the code keeps: it holds of every construction that
\* returns.
C6_EndWhenConstructed == \A s \in Slots : NotFound(s)

StrictlyIncreasing(q) == \A j, k \in 1..Len(q) : j < k => q[j] < q[k]

\* the least number of a non-empty finite set
Least(xs) == CHOOSE x \in xs : \A y \in xs : x <= y

\* C7 (advance step): ++ applied to an iterator positioned on identifier x,
\* reached from begin() or from find(x), leaves it positioned on the smallest
\* common identifier greater than x, or at end if there is none; so the
\* identifiers visited increase strictly.
C7_AdvanceStep ==
    [][\A s \in Slots :
          (Made(s) /\ hist'[s].advs = hist[s].advs + 1) =>
              LET x == CurId(its[s], 0)
                  later == {y \in Common : y > x}
              IN /\ AlignedOn(its[s], x)
                 /\ IF later = {} THEN AllAtEnd(its'[s])
                    ELSE AlignedOn(its'[s], Least(later))
                 /\ StrictlyIncreasing(hist'[s].out)]_vars

\* An iterator obtained from find(1) over three sets was advanced and is
\* positioned on 3, the identifier 2 being in some of the sets but not in all.
C7_Witness ==
    /\ Cardinality(DOMAIN sets) = 3
    /\ hist["a"].origin = "find"
    /\ hist["a"].out = <<1, 3>>
    /\ AlignedOn(its["a"], 3)
    /\ \E N \in DOMAIN sets : 2 \in IdsOf(sets[N])

\* A union of a single set visits the records of the set in the set's order,
\* the cursor moving by one position with each advance.
PassThrough(s) ==
    (Cardinality(DOMAIN sets) = 1 /\ hist[s].origin = "begin") =>
        LET n == hist[s].advs + 1
            seen == IF n <= Len(sets[0]) THEN n ELSE Len(sets[0])
        IN /\ its[s].sets_[0].current = n
           /\ its[s].sets_[0].end = FlatSetEnd(sets[0])
           /\ hist[s].out = [k \in 1..seen |-> get_element_id(sets[0][k])]

\* C8 (single-sequence degeneration): a union over exactly one set visits,
\* from begin() to end(), exactly the records of that set in the set's own
\* order (for every set, begin() and end() returning as they do for the set
\* itself); each advance moves the one cursor by exactly one position.
C8_SingleSequence ==
    /\ Cardinality(DOMAIN sets) = 1 => fault \notin {"begin", "end"}
    /\ \A s \in Slots : PassThrough(s)

\* The part of C8 that the code keeps: the pass-through, for every traversal
\* whose begin() and end() return.
C8_PassThroughWhenConstructed == \A s \in Slots : PassThrough(s)

\* the cursors of x and y are at the same position in every base set
SamePositions(x, y) ==
    \A N \in DOMAIN sets : x.sets_[N].current = y.sets_[N].current

\* C9 (equality): two iterators over the same sets compare equal if and only
\* if their cursors are at the same position in every set; max_ plays no
\* role, so an iterator advanced until exhaustion equals one made by end();
\* and != is the negation of ==.
C9_Equality ==
    \A s, t \in Slots :
        (Made(s) /\ Made(t)) =>
            /\ IterEq(its[s], its[t]) <=> SamePositions(its[s], its[t])
            /\ IterNeq(its[s], its[t]) <=> ~IterEq(its[s], its[t])
            /\ (/\ hist[s].origin = "begin"
                /\ hist[s].advs = Cardinality(Common)
                /\ hist[t].origin = "end") => IterEq(its[s], its[t])

\* Iterator a was advanced from begin() until exhaustion, b was made by
\* end(); they compare equal and their max_ differ.
C9_Witness ==
    /\ hist["a"].origin = "begin"
    /\ hist["a"].advs >= 1
    /\ hist["b"].origin = "end"
    /\ IterEq(its["a"], its["b"])
    /\ its["a"].max_ # its["b"].max_

\* the identifier of the entity a union_set_el refers to
EntityId(x) == get_element_id(get(sets, x[1].type, x))

\* C10 (subset-view soundness): a union_set_el over a subset of the types,
\* constructed from a superset one, refers for every retained type to the same
\* record (same set, same position) as the superset one, which is the record
\* a lookup of the identifier in that set returns; it holds pointers only, and
\* none to a dropped type.
C10_SubsetView ==
    sub.made =>
        /\ TypesOf(sub.el) = sub.types
        /\ \A k \in 1..Len(sub.el) :
              /\ sub.el[k] = std_get(sub.types[k], view)
              /\ sub.el[k].pos =
                    FlatSetFind(sets[sub.types[k]], ComponentBase(EntityId(view)))
              /\ get(sets, sub.types[k], sub.el) = get(sets, sub.types[k], view)

\* An entity of three components, whose records lie at different positions
\* of their sets, was converted to an entity of two of them in another order.
C10_Witness ==
    /\ sub.made
    /\ Len(view) = 3
    /\ sub.types = <<2, 0>>
    /\ view[1].pos # view[3].pos


\* the member Id of every record of base set N is the record's identifier
IdIsIdentifier(N) == \A p \in 1..Len(sets[N]) : sets[N][p].Id = element_id(sets[N][p])

\* a traversal from begin() yields the common projected identifiers, and every
\* positioned state is aligned on one of them
Projected(s) ==
    /\ Traversal(s)
    /\ (Made(s) /\ NotAtEnd(its[s])) =>
          /\ Aligned(its[s])
          /\ CurId(its[s], 0) \in Common

\* C11 (pluggable identifier projection): when the element_id of a record
\* type is specialised, every identifier the iterator uses, the one max_ is
\* initialised from included, is the projected one; begin() and advance
\* compute the intersection of the projected identifiers, whichever set is
\* the driver.
C11_Projection == \A s \in Slots : Projected(s)

\* The part of C11 that the code keeps: it holds when the member Id of the
\* records of the driver set is their identifier.
C11_ProjectionWhenDriverIdIsIdentifier ==
    IdIsIdentifier(Cardinality(DOMAIN sets) - 1) => \A s \in Slots : Projected(s)

\* A union was traversed to its end whose first set holds records of a type
\* with a specialised element_id and a member Id that is not the identifier.
C11_Witness ==
    /\ Cardinality(DOMAIN sets) >= 2
    /\ ~IdIsIdentifier(0)
    /\ hist["a"].origin = "begin"
    /\ hist["a"].advs >= 1
    /\ ~NotAtEnd(its["a"])


\* C12 (independent iterators): construction, advance, dereference and find
\* never modify the base sets; an operation on one iterator changes neither
\* the cursors nor max_ of the other iterator over the same sets; and under
\* any interleaving of the advances of two iterators started at begin(),
\* each one produces the complete sorted intersection.
C12_Independent ==
    /\ [][/\ sets' = sets
          /\ \E s \in Slots :
                \A t \in Slots \ {s} : its'[t] = its[t] /\ hist'[t] = hist[t]]_vars
    /\ [](\A s \in Slots : Traversal(s))

\* Both iterators were started at begin(); the first was advanced to the end
\* while the second, advanced once in between, stands on a later identifier
\* than the one it started on.
C12_Witness ==
    /\ hist["a"].origin = "begin"
    /\ hist["b"].origin = "begin"
    /\ ~NotAtEnd(its["a"])
    /\ Len(hist["a"].out) >= 2
    /\ hist["b"].advs = 1
    /\ NotAtEnd(its["b"])


\* the union is taken over the two sets A = {1,2,3} and C = {2,3} of the
\* example scenarios, in either order
ScenarioAC ==
    /\ DOMAIN sets = {0, 1}
    /\ {IdsOf(sets[0]), IdsOf(sets[1])} = {{1, 2, 3}, {2, 3}}

\* a traversal of the union from begin() has reached end()
Traversed(s) == hist[s].origin = "begin" /\ ~NotAtEnd(its[s])

\* C13 (example scenario 3), as the code behaves: with A holding the
\* identifiers {1,2,3} and C holding {2,3}, a full traversal of the
\* intersection of A and C yields the identifier list [2,3].
C13_Scenario3 ==
    \A s \in Slots : (ScenarioAC /\ Traversed(s)) => hist[s].out = <<2, 3>>

\* C13 as it is stated: the same traversal yields the identifier list [3].
C13_Scenario3AsStated ==
    \A s \in Slots : (ScenarioAC /\ Traversed(s)) => hist[s].out = <<3>>

\* The union of A and C has been traversed to its end in two advances.
C13_Witness ==
    /\ ScenarioAC
    /\ Traversed("a")
    /\ hist["a"].advs = 2


\* in a positioned state max_ is the identifier the cursors are aligned on
MaxIsCommon(s) ==
    (Made(s) /\ NotAtEnd(its[s])) => its[s].max_ = CurId(its[s], 0)

\* C14 (max_ in positioned states): in every positioned state observable
\* after construction or after an advance, for any number of base sets, one
\* included, the stored max_ equals the common identifier on which the
\* cursors are aligned.
C14_MaxIsCommon == \A s \in Slots : MaxIsCommon(s)

\* The part of C14 that the code keeps: it holds for a union of two or more
\* sets, and for a single set as long as the iterator has not been advanced.
C14_MaxIsCommonUnlessSingleAdvanced ==
    \A s \in Slots :
        (Cardinality(DOMAIN sets) >= 2 \/ hist[s].advs = 0) => MaxIsCommon(s)

\* An iterator over a single set has been advanced and is positioned.
C14_Witness ==
    /\ Cardinality(DOMAIN sets) = 1
    /\ hist["a"].advs >= 1
    /\ NotAtEnd(its["a"])


\* the assignments to max_ of the synchronisation that produced it: each
\* stored the largest identifier read so far, and none stored less than an
\* earlier one
RunningMax(it) ==
    /\ \A j \in 1..Len(it.maxes) : it.maxes[j].max = it.maxes[j].top
    /\ \A j, k \in 1..Len(it.maxes) : j < k => it.maxes[j].max <= it.maxes[k].max

\* C15 (running maximum): during one synchronisation (a construction or an
\* advance) max_ is at every step the largest identifier observed so far
\* among the cursors being aligned; it never decreases within that
\* synchronisation, and it is never smaller than an identifier that a
\* catch-up step has already recorded into it.
C15_RunningMax == \A s \in Slots : Made(s) => RunningMax(its[s])

\* The part of C15 that the code keeps: it holds of every advance.
C15_RunningMaxOfAdvance ==
    \A s \in Slots : (Made(s) /\ hist[s].advs >= 1) => RunningMax(its[s])

\* An advance over three sets has assigned max_ twice: from the driver, and
\* from a set that was found ahead of it.
C15_Witness ==
    /\ Cardinality(DOMAIN sets) = 3
    /\ hist["a"].advs >= 1
    /\ Len(its["a"].maxes) >= 2


\* no operation on the iterator has read the record at a cursor that was at
\* its set's end
NoReadAtEnd(s) == Made(s) => its[s].read_end = "no"

\* C16 (no read at end): construction (begin(), end(), find()) and advance
\* from a positioned state never read the record at a cursor that equals its
\* set's end cursor, for any number of base sets, exactly one included.
C16_NoReadAtEnd ==
    /\ fault = "none"
    /\ \A s \in Slots : NoReadAtEnd(s)

\* The part of C16 that the code keeps: no read at end for a union of two or
\* more sets, and none in an advance.
C16_NoReadAtEndForSeveralSets ==
    /\ Cardinality(DOMAIN sets) >= 2 =>
          /\ fault = "none"
          /\ \A s \in Slots : NoReadAtEnd(s)
    /\ [][\A s \in Slots :
            (Made(s) /\ hist'[s].advs = hist[s].advs + 1) =>
                its'[s].read_end = its[s].read_end]_vars

\* end() over a single set that holds records has returned an iterator.
C16_Witness ==
    /\ Cardinality(DOMAIN sets) = 1
    /\ Len(sets[0]) >= 1
    /\ hist["a"].origin = "end"


\* the construction of s was handed, for every base set, a cursor at a record
Hits(s) ==
    /\ hist[s].origin \in {"find", "find_keys"}
    /\ \A N \in DOMAIN sets : FirstCursor(hist[s], N) # FlatSetEnd(sets[N])

\* the identifier of the record at the cursor the construction was handed for
\* set N
FirstId(s, N) == get_element_id(sets[N][FirstCursor(hist[s], N)])

\* the cursors the construction was handed are at records of one identifier
HitsAligned(s) == Hits(s) /\ \A N \in DOMAIN sets : FirstId(s, N) = FirstId(s, 0)

\* C17 (construction is idempotent on a positioned state): when every lookup
\* of find(id) hits, and more generally when the cursors handed to the
\* construction are all non-end and at records of one identifier, the
\* construction moves no cursor: each stays at the position its lookup
\* returned.
C17_ConstructionKeepsAligned ==
    \A s \in Slots :
        (Made(s) /\ hist[s].advs = 0 /\ HitsAligned(s)) =>
            \A N \in DOMAIN sets :
                its[s].sets_[N].current = FirstCursor(hist[s], N)

\* A lookup with one key record per set, all with the same identifier, has
\* returned an iterator over three sets whose cursors stand at different
\* positions.
C17_Witness ==
    /\ Cardinality(DOMAIN sets) = 3
    /\ hist["a"].origin = "find_keys"
    /\ hist["a"].advs = 0
    /\ HitsAligned("a")
    /\ \E N, M \in DOMAIN sets :
          its["a"].sets_[N].current # its["a"].sets_[M].current


RECURSIVE SumOver(_, _)
\* the sum of the numbers f[N] for N in D
SumOver(f, D) ==
    IF D = {} THEN 0
    ELSE LET N == CHOOSE x \in D : TRUE
         IN f[N] + SumOver(f, D \ {N})

\* the cursor of each set has been moved by single steps no more often than
\* the set has records
WithinWork(s) ==
    hist[s].origin = "begin" =>
        /\ \A N \in DOMAIN sets : its[s].steps[N] <= Len(sets[N])
        /\ SumOver(its[s].steps, DOMAIN sets) <=
              SumOver([N \in DOMAIN sets |-> Len(sets[N])], DOMAIN sets)

\* C18 (work bound): over one full traversal from begin() to end(), the
\* cursor of each set is moved by single-step increments at most as often as
\* the set has records, so the total number of such increments is at most
\* the sum of the sizes of the sets; and no cursor ever moves back, so no
\* record is inspected again after its cursor has passed it.
C18_WorkBound ==
    /\ [](\A s \in Slots : WithinWork(s))
    /\ [][\A s \in Slots :
            (Made(s) /\ hist'[s].advs = hist[s].advs + 1) =>
                \A N \in DOMAIN sets :
                    its'[s].sets_[N].current >= its[s].sets_[N].current]_vars

\* A traversal of a union of three sets has ended with the cursor of one set
\* moved over all of its three records and another set left with records
\* that were never stepped over.
C18_Witness ==
    /\ Cardinality(DOMAIN sets) = 3
    /\ Traversed("a")
    /\ hist["a"].advs >= 1
    /\ \E N \in DOMAIN sets : Len(sets[N]) = 3 /\ its["a"].steps[N] = 3
    /\ \E N \in DOMAIN sets : its["a"].steps[N] < Len(sets[N])


\* the largest number of a non-empty finite set
Greatest(xs) == CHOOSE x \in xs : \A y \in xs : y <= x

\* C19 (synchronisation from arbitrary cursors): constructing an iterator
\* from non-end cursors that are not aligned, as the lookup with one key
\* record per set produces for keys of different identifiers, results in a
\* positioned state on the smallest identifier that is present in every set
\* and is greater than or equal to every starting cursor's identifier, or in
\* the end state if there is none.
C19_SyncFromCursors ==
    \A s \in Slots :
        (Made(s) /\ hist[s].advs = 0 /\ Hits(s) /\ ~HitsAligned(s)) =>
            LET lo == Greatest({FirstId(s, N) : N \in DOMAIN sets})
                cands == {x \in Common : x >= lo}
            IN IF cands = {} THEN AllAtEnd(its[s])
               ELSE AlignedOn(its[s], Least(cands))

\* A lookup over three sets with keys of three different identifiers has
\* returned an iterator positioned on an identifier above the smallest
\* common one.
C19_Witness ==
    /\ Cardinality(DOMAIN sets) = 3
    /\ hist["a"].origin = "find_keys"
    /\ hist["a"].advs = 0
    /\ Hits("a")
    /\ Cardinality({FirstId("a", N) : N \in DOMAIN sets}) = 3
    /\ NotAtEnd(its["a"])
    /\ CurId(its["a"], 0) > Least(Common)


\* iterator s was made by begin() and stands where j - 1 advances brought it
\* to the identifier x, followed by more advances; iterator t was made by a
\* find(x) that returned a positioned iterator, followed by more advances
Met(s, t, more) ==
    /\ hist[s].origin = "begin"
    /\ hist[t].origin = "find"
    /\ hist[t].out # <<>>
    /\ hist[t].advs = more
    /\ \E j \in 1..Len(hist[s].out) :
          /\ hist[s].out[j] = hist[t].key
          /\ hist[s].advs = (j - 1) + more

\* C20 (find agrees with traversal): whenever find(id) is positioned, it
\* compares equal to the iterator obtained by advancing from begin() until
\* its identifier is id, and advancing either of them yields equal iterators
\* from then on.
C20_FindAgreesWithTraversal ==
    \A s, t \in Slots : \A more \in 0..MaxId :
        Met(s, t, more) =>
            /\ IterEq(its[s], its[t])
            /\ IterEq(its[t], its[s])
            /\ ~IterNeq(its[s], its[t])

\* The traversal from begin() reached the identifier found by find after an
\* advance, and both iterators were then advanced once more to a positioned
\* state over three sets.
C20_Witness ==
    /\ Cardinality(DOMAIN sets) = 3
    /\ Met("a", "b", 1)
    /\ hist["a"].advs = 2
    /\ NotAtEnd(its["b"])


\* C21 (order independence): the list of identifiers produced by a full
\* traversal, and whether find(id) is positioned or end, are the same for
\* every order in which the base sets are listed when the union is built;
\* which set acts as driver does not change the result.
C21_OrderIndependent ==
    \A s \in Slots :
        /\ Traversed(s) =>
              \A p \in Perms(DOMAIN sets) : Walk(Permute(sets, p)) = hist[s].out
        /\ (hist[s].origin = "find" /\ hist[s].advs = 0) =>
              \A p \in Perms(DOMAIN sets) :
                  Found(Permute(sets, p), hist[s].key) <=> NotAtEnd(its[s])

\* A union of three sets of different sizes, the last one (the driver) the
\* largest, has been traversed to its end after visiting two identifiers.
C21_Witness ==
    /\ Cardinality(DOMAIN sets) = 3
    /\ Traversed("a")
    /\ Len(hist["a"].out) = 2
    /\ Len(sets[0]) < Len(sets[2])
    /\ sets[0] # sets[1]


\* the cursor of set N of iterator s stands at or behind the cursor its
\* construction was given, and not behind the end of the set; a cursor that
\* was given at the end is at the end
NotBeforeFirst(s, N) ==
    /\ FirstCursor(hist[s], N) <= its[s].sets_[N].current
    /\ its[s].sets_[N].current <= its[s].sets_[N].end
    /\ FirstCursor(hist[s], N) = FlatSetEnd(sets[N]) => AtEndCursor(its[s], N)

\* C22 (cursors only move forward): across the construction of an iterator
\* and any sequence of advances, the position of the cursor of each set
\* never decreases, and a cursor that equals its end cursor stays there.
C22_CursorsOnlyForward ==
    /\ [](\A s \in Slots : Made(s) =>
              \A N \in DOMAIN sets : NotBeforeFirst(s, N))
    /\ [][\A s \in Slots :
            (Made(s) /\ hist'[s].advs > hist[s].advs) =>
                \A N \in DOMAIN sets :
                    /\ its[s].sets_[N].current <= its'[s].sets_[N].current
                    /\ AtEndCursor(its[s], N) => AtEndCursor(its'[s], N)]_vars

\* A lookup with keys of different identifiers in three sets found the
\* cursors not aligned; its construction moved a cursor on, and two advances
\* later every cursor is at its end, one of them moved there over records
\* that were never stepped over.
C22_Witness ==
    /\ Cardinality(DOMAIN sets) = 3
    /\ hist["a"].origin = "find_keys"
    /\ Cardinality({hist["a"].key[N] : N \in DOMAIN sets}) > 1
    /\ hist["a"].advs = 2
    /\ AllAtEnd(its["a"])
    /\ \E N \in DOMAIN sets :
          FirstCursor(hist["a"], N) + its["a"].steps[N] < its["a"].sets_[N].end


\* the step is a dereference: it leaves an entity that has not been converted
IsDeref == view' # <<>> /\ sub' = NoSub

\* C23 (dereference is a pure read): dereferencing a positioned iterator
\* returns one pointer per base set, in the order of the sets, each to the
\* record at that set's current cursor; it leaves the cursors, max_ and the
\* base sets unchanged, so that a second dereference without an advance in
\* between denotes the same records.
C23_DerefPureRead ==
    /\ [](view # <<>> =>
            /\ Made("a") /\ NotAtEnd(its["a"])
            /\ TypesOf(view) = [k \in 1..Cardinality(DOMAIN sets) |-> k - 1]
            /\ \A N \in DOMAIN sets :
                  /\ InSet(its["a"], N)
                  /\ get(sets, N, view) = sets[N][its["a"].sets_[N].current])
    /\ [][IsDeref =>
            /\ its' = its
            /\ sets' = sets
            /\ hist' = hist
            /\ view # <<>> => view' = view]_vars

\* An iterator over three sets was advanced and then dereferenced; the
\* entity points to records at different positions of their sets.
C23_Witness ==
    /\ Len(view) = 3
    /\ ~sub.made
    /\ hist["a"].advs >= 1
    /\ Cardinality({view[k].pos : k \in 1..3}) > 1


\* C24 (write through a view): writing through an entity changes, in place,
\* exactly one record of the base sets, the one of the written type at that
\* set's current cursor, and nothing else; the identifier being left as it
\* was, the iterator is unchanged and the traversal goes on to yield the
\* common identifiers.
C24_WriteThroughView ==
    /\ [](\A N \in DOMAIN sets : \A p \in 1..Len(sets[N]) :
              sets[N][p].Data \in {0, N + 1})
    /\ [](Traversal("a"))
    /\ [][sets' # sets =>
            /\ its' = its /\ hist' = hist /\ view' = view
            /\ \E N \in DOMAIN sets :
                  LET p == its["a"].sets_[N].current
                  IN /\ InSet(its["a"], N)
                     /\ std_get(N, view).pos = p
                     /\ sets' = [sets EXCEPT ![N][p] =
                                    [Id |-> sets[N][p].Id, Data |-> N + 1]]]_vars

\* A traversal of a union of two or more sets has ended after visiting two
\* identifiers; components of two types were written on the way, and in a
\* set with a written record another record is as it was constructed.
C24_Witness ==
    /\ Traversed("a")
    /\ Len(hist["a"].out) >= 2
    /\ \E N, M \in DOMAIN sets :
          /\ N # M
          /\ \E p \in 1..Len(sets[N]) : sets[N][p].Data # 0
          /\ \E p \in 1..Len(sets[M]) : sets[M][p].Data # 0
          /\ \E p \in 1..Len(sets[N]) : sets[N][p].Data = 0


\* C25 (subset check): the check that guards the construction of an entity
\* from another one holds exactly when every type of the target list occurs
\* among the types of the source entity; so it holds for an empty target
\* list and for the source's own types, and fails when one target type,
\* the first or a later one, is missing from the source.
C25_SubsetCheck ==
    (view # <<>> /\ sub # NoSub) =>
        (sub.made <=>
            \A k \in 1..Len(sub.types) :
                \E j \in 1..Len(view) : view[j].type = sub.types[k])

\* A function that works with an entity of the types 2 and 0, in this order,
\* called a function that takes the types 0 and 1: the first target type is
\* among the source's, the second is not, and the call was rejected.
C25_Witness ==
    /\ TypesOf(view) = <<2, 0>>
    /\ sub.types = <<0, 1>>
    /\ ~sub.made

====
